---- MODULE Spec2Model ----
(***************************************************************************)
(* Model of src/logic.py: the Logic window of the voting application.      *)
(*                                                                         *)
(* Texts are strings, taken apart and put together character by character  *)
(* where the code does so (''.join, len(), the csv writer, the csv         *)
(* DictReader).  The store votes.csv is a sequence of lines.  Every        *)
(* filesystem call of the code sits in a try/except block; the model lets  *)
(* an open() of the store raise (a fault: missing permissions, a locked    *)
(* file) and follows the except branch the code takes.                     *)
(***************************************************************************)
EXTENDS Integers, Sequences, FiniteSets, TLC

VARIABLES
    input_first_name,           \* text of the first-name QLineEdit
    input_last_name,            \* text of the last-name QLineEdit
    digit_inputs,               \* texts of the five digit QLineEdits
    first_candidate_button,     \* isChecked() of the first candidate's button
    second_candidate_button,    \* isChecked() of the second candidate's button
    message_label,              \* text of the message label
    timers,                     \* number of pending QTimer.singleShot callbacks
    csv_file,                   \* votes.csv: [exists, lines]
    thanked,    \* history: confirmations shown so far, per candidate
    own,        \* history: the label still shows the confirmation that the
                \*          oldest pending timer was started for
    last        \* history: what the last handler run did

form == <<input_first_name, input_last_name, digit_inputs,
          first_candidate_button, second_candidate_button>>

vars == <<form, message_label, timers, csv_file, thanked, own, last>>

---------------------------------------------------------------------------
(* Bounds of the model.                                                    *)

\* Confirmations ("Thank you ...") shown in one run of the program.
MaxVotes == 2

\* Pending single-shot timers.
MaxTimers == 1

\* The names the user types: letters, hyphens and apostrophes.
FirstNames == {"Al"}

LastNames == {"O'Li"}

\* What the user leaves in the five digit inputs: nothing, three digits
\* with gaps between them, four digits, and two full voting IDs.
DigitFills ==
    { <<"", "", "", "", "">>,
      <<"1", "", "3", "", "5">>,
      <<"", "2", "3", "4", "5">>,
      <<"1", "2", "3", "4", "5">>,
      <<"5", "4", "3", "2", "1">> }

---------------------------------------------------------------------------
(* Class attributes and literals of the code.                              *)

candidates == <<"Jane", "John">>

error_message_color == "color: red;"

success_message_color == "color: green;"

NumDigitInputs == 5

HeaderFields == <<"First Name", "Last Name", "Voting ID", "Voted">>

\* Python's None, the DictReader's value of a field a short row lacks; no
\* text of the form equals it.
None == "<None>"

NoText == ""

MsgFirstName == "Please provide the first name"

MsgLastName == "Please provide the last name"

MsgVotingID == "Please provide the voting ID"

MsgFiveDigits == "Voting ID must be 5 digits"

MsgCandidate == "Please select a candidate to vote for"

MsgDuplicate == "This Voting ID has already been used"

MsgThankYou(first_name, candidate) ==
    "Thank you " \o first_name \o "! You voted for " \o candidate \o "!"

\* The titles of the QMessageBox.warning dialogs.
WarnSaving == "Saving Error"

WarnDuplicate == "ERROR"

WarnStats == "Candidate Stats Error"

---------------------------------------------------------------------------
(* Text and csv helpers.                                                   *)

RECURSIVE Join(_)
\* ''.join(parts)
Join(parts) ==
    IF parts = <<>> THEN "" ELSE Head(parts) \o Join(Tail(parts))

RECURSIVE writerow(_)
\* csv.writer.writerow: the fields separated by commas.  No field the form
\* can hold needs quoting: the validators admit letters, - ' and digits.
writerow(fields) ==
    IF fields = <<>> THEN ""
    ELSE IF Len(fields) = 1 THEN Head(fields)
    ELSE Head(fields) \o "," \o writerow(Tail(fields))

RECURSIVE SplitFrom(_, _, _)
SplitFrom(line, start, i) ==
    IF i > Len(line) THEN <<SubSeq(line, start, Len(line))>>
    ELSE IF SubSeq(line, i, i) = ","
    THEN <<SubSeq(line, start, i - 1)>> \o SplitFrom(line, i + 1, i + 1)
    ELSE SplitFrom(line, start, i + 1)

\* csv.reader on one line: the fields between the commas.
readrow(line) == SplitFrom(line, 1, 1)

\* The position of a field name in the header row (0 when missing).
FieldIndex(fieldnames, key) ==
    IF \E i \in 1..Len(fieldnames) : fieldnames[i] = key
    THEN CHOOSE i \in 1..Len(fieldnames) :
            /\ fieldnames[i] = key
            /\ \A j \in 1..(i - 1) : fieldnames[j] # key
    ELSE 0

\* csv.DictReader: the first line names the fields, every later line is a
\* row; Get(row, key) is row[key], and None where a short row lacks the field.
DictReader(lines) ==
    IF lines = <<>> THEN <<>>
    ELSE LET fieldnames == readrow(lines[1])
         IN  [i \in 1..(Len(lines) - 1) |->
                [fieldnames |-> fieldnames, values |-> readrow(lines[i + 1])]]

Get(row, key) ==
    LET k == FieldIndex(row.fieldnames, key)
    IN  IF k <= Len(row.values) THEN row.values[k] ELSE None

---------------------------------------------------------------------------
(* The store and its faults.                                               *)

Absent == [exists |-> FALSE, lines |-> <<>>]

\* open(csv_file, mode='r') may raise: the read fault of a handler run.  A
\* store that does not exist is never opened for reading.
ReadFaults(file) == IF file.exists THEN {FALSE, TRUE} ELSE {FALSE}

\* A write of the store may raise when the file is created ("create") or
\* when it is opened for appending ("append").
WriteFaults == {"none", "create", "append"}

\* The write fault hits an open() that save_vote makes on the file.
WriteRaises(file, fault) ==
    (~file.exists /\ fault = "create") \/ fault = "append"

---------------------------------------------------------------------------
(* The methods of Logic.                                                   *)

get_voting_id(digits) == Join(digits)

\* check_duplicate_vote: [result, warnings].  A row with the voting ID
\* returns True; an exception shows a warning and returns False; the loop
\* running out returns None, which is false.
check_duplicate_vote(file, voting_id, fault) ==
    IF ~file.exists THEN [result |-> FALSE, warnings |-> <<>>]
    ELSE IF fault THEN [result |-> FALSE, warnings |-> <<WarnDuplicate>>]
    ELSE LET rows == DictReader(file.lines)
         IN  [result |-> \E i \in 1..Len(rows) :
                            Get(rows[i], "Voting ID") = voting_id,
              warnings |-> <<>>]

\* save_vote: [csv_file, warnings].  The header is written by a first open
\* when the file does not exist, the vote by a second, appending open; an
\* exception in either shows a warning and ends the method.
save_vote(file, first_name, last_name, voting_id, candidate, fault) ==
    IF ~file.exists /\ fault = "create"
    THEN [csv_file |-> file, warnings |-> <<WarnSaving>>]
    ELSE LET created == IF file.exists THEN file
                        ELSE [exists |-> TRUE, lines |-> <<writerow(HeaderFields)>>]
         IN  IF fault = "append"
             THEN [csv_file |-> created, warnings |-> <<WarnSaving>>]
             ELSE [csv_file |->
                      [created EXCEPT !.lines =
                          Append(@, writerow(<<first_name, last_name,
                                               voting_id, candidate>>))],
                   warnings |-> <<>>]

CandidateSet == {candidates[i] : i \in 1..Len(candidates)}

\* The number of rows whose field key holds value.
Tally(rows, key, value) ==
    Cardinality({i \in 1..Len(rows) : Get(rows[i], key) = value})

\* get_candidate_stats with the first data row skipped as if it were a
\* second header line.
get_candidate_stats_skips_first(file, fault) ==
    IF ~file.exists THEN [stats |-> [c \in CandidateSet |-> 0], warnings |-> <<>>]
    ELSE IF fault
    THEN [stats |-> [c \in CandidateSet |-> 0], warnings |-> <<WarnStats>>]
    ELSE LET rows == DictReader(file.lines)
         IN  [stats |-> [c \in CandidateSet |->
                            Cardinality({i \in 2..Len(rows) :
                                            Get(rows[i], "Voted") = c})],
              warnings |-> <<>>]

\* get_candidate_stats: [stats, warnings].  The counts start at zero; an
\* exception shows a warning, and stats is returned anyway.
get_candidate_stats(file, fault) ==
    IF ~file.exists THEN [stats |-> [c \in CandidateSet |-> 0], warnings |-> <<>>]
    ELSE IF fault
    THEN [stats |-> [c \in CandidateSet |-> 0], warnings |-> <<WarnStats>>]
    ELSE LET rows == DictReader(file.lines)
         IN  [stats |-> [c \in CandidateSet |-> Tally(rows, "Voted", c)],
              warnings |-> <<>>]

\* validate with the length check written as "longer than 5": a voting ID
\* of one to four characters passes.
validate_too_long_only(first_name, last_name, voting_id, first_checked, second_checked) ==
    IF first_name = "" THEN MsgFirstName
    ELSE IF last_name = "" THEN MsgLastName
    ELSE IF voting_id = "" THEN MsgVotingID
    ELSE IF Len(voting_id) > 5 THEN MsgFiveDigits
    ELSE IF ~(first_checked \/ second_checked) THEN MsgCandidate
    ELSE NoText

\* validate with the candidate check left out.
validate_no_selection(first_name, last_name, voting_id, first_checked, second_checked) ==
    IF first_name = "" THEN MsgFirstName
    ELSE IF last_name = "" THEN MsgLastName
    ELSE IF voting_id = "" THEN MsgVotingID
    ELSE IF Len(voting_id) # 5 THEN MsgFiveDigits
    ELSE NoText

\* The checks of process_vote that come before the store is looked at:
\* the text of the first error, or NoText.
validate(first_name, last_name, voting_id, first_checked, second_checked) ==
    IF first_name = "" THEN MsgFirstName
    ELSE IF last_name = "" THEN MsgLastName
    ELSE IF voting_id = "" THEN MsgVotingID
    ELSE IF Len(voting_id) # 5 THEN MsgFiveDigits
    ELSE IF ~(first_checked \/ second_checked) THEN MsgCandidate
    ELSE NoText

\* candidates[0] if first_candidate_button.isChecked() else candidates[1]
chosen(first_checked) == IF first_checked THEN candidates[1] ELSE candidates[2]

\* show_message: the label's text (its style sheet, which no handler
\* reads, is left out of the state).
show_message(text, color) == text

---------------------------------------------------------------------------
(* The state machine: the window after __init__ and its handlers.          *)

NoStats == [c \in CandidateSet |-> 0]

\* The record of a handler run, before the handler fills it in.
Did(op) ==
    [op |-> op,
     warnings |-> <<>>,         \* the warning dialogs it showed
     dup_checked |-> FALSE,     \* check_duplicate_vote was called
     saved |-> FALSE,           \* save_vote was called
     raised |-> FALSE,          \* an open() of the store raised
     stats |-> NoStats]         \* what get_candidate_stats returned

Init ==
    /\ input_first_name = ""
    /\ input_last_name = ""
    /\ digit_inputs = [i \in 1..NumDigitInputs |-> ""]
    /\ first_candidate_button = FALSE
    /\ second_candidate_button = FALSE
    /\ message_label = NoText
    /\ timers = 0
    /\ csv_file = Absent
    /\ thanked = NoStats
    /\ own = FALSE
    /\ last = Did("init")

\* textChanged -> clear_message, for every input field.
clear_message ==
    /\ message_label' = NoText
    /\ own' = FALSE

\* The user edits the first name.
edit_first_name(text) ==
    /\ text # input_first_name
    /\ input_first_name' = text
    /\ clear_message
    /\ last' = Did("edit")
    /\ UNCHANGED <<input_last_name, digit_inputs, first_candidate_button,
                   second_candidate_button, timers, csv_file, thanked>>

\* The user edits the last name.
edit_last_name(text) ==
    /\ text # input_last_name
    /\ input_last_name' = text
    /\ clear_message
    /\ last' = Did("edit")
    /\ UNCHANGED <<input_first_name, digit_inputs, first_candidate_button,
                   second_candidate_button, timers, csv_file, thanked>>

\* The user edits digit inputs until they hold fill; every input that
\* changes fires textChanged.
edit_digits(fill) ==
    /\ fill # digit_inputs
    /\ digit_inputs' = fill
    /\ clear_message
    /\ last' = Did("edit")
    /\ UNCHANGED <<input_first_name, input_last_name, first_candidate_button,
                   second_candidate_button, timers, csv_file, thanked>>

\* The user clicks a candidate's button.  The buttons are in the exclusive
\* candidate_button_group: checking one unchecks the other.
select_candidate(i) ==
    /\ first_candidate_button' = (i = 1)
    /\ second_candidate_button' = (i = 2)
    /\ <<first_candidate_button', second_candidate_button'>>
          # <<first_candidate_button, second_candidate_button>>
    /\ last' = Did("edit")
    /\ UNCHANGED <<input_first_name, input_last_name, digit_inputs,
                   message_label, timers, csv_file, thanked, own>>

\* clear_form: every field is cleared and the checked button unchecked.
clear_form ==
    /\ input_first_name' = ""
    /\ input_last_name' = ""
    /\ digit_inputs' = [i \in 1..NumDigitInputs |-> ""]
    /\ first_candidate_button' = FALSE
    /\ second_candidate_button' = FALSE

\* vote_button.clicked
process_vote(read_fault, write_fault) ==
    LET first_name == input_first_name
        last_name == input_last_name
        voting_id == get_voting_id(digit_inputs)
        error == validate(first_name, last_name, voting_id,
                          first_candidate_button, second_candidate_button)
        dup == check_duplicate_vote(csv_file, voting_id, read_fault)
        candidate == chosen(first_candidate_button)
        written == save_vote(csv_file, first_name, last_name, voting_id,
                             candidate, write_fault)
    IN  IF error # NoText
        THEN /\ message_label' = show_message(error, error_message_color)
             /\ own' = FALSE
             /\ last' = Did("process_vote")
             /\ UNCHANGED <<form, timers, csv_file, thanked>>
        ELSE IF dup.result
        THEN /\ message_label' = show_message(MsgDuplicate, error_message_color)
             /\ own' = FALSE
             /\ last' = [Did("process_vote") EXCEPT !.dup_checked = TRUE,
                                                    !.warnings = dup.warnings,
                                                    !.raised = read_fault]
             /\ UNCHANGED <<form, timers, csv_file, thanked>>
        ELSE \* the bounds of the model: one more confirmation, one more timer
             /\ thanked[candidates[1]] + thanked[candidates[2]] < MaxVotes
             /\ timers < MaxTimers
             /\ csv_file' = written.csv_file
             /\ clear_form
             /\ message_label' =
                    show_message(MsgThankYou(first_name, candidate),
                                 success_message_color)
             \* QTimer.singleShot(5000, self.message_label.clear)
             /\ timers' = timers + 1
             /\ own' = (timers = 0)
             /\ thanked' = [thanked EXCEPT ![candidate] = @ + 1]
             /\ last' = [Did("process_vote") EXCEPT
                            !.dup_checked = TRUE, !.saved = TRUE,
                            !.warnings = dup.warnings \o written.warnings,
                            !.raised = read_fault
                                       \/ WriteRaises(csv_file, write_fault)]

\* result_button.clicked
show_results(read_fault) ==
    LET got == get_candidate_stats(csv_file, read_fault)
    IN  /\ last' = [Did("show_results") EXCEPT !.stats = got.stats,
                                               !.warnings = got.warnings,
                                               !.raised = read_fault]
        /\ UNCHANGED <<form, message_label, timers, csv_file, thanked, own>>

\* The oldest single-shot timer fires: message_label.clear().
timeout ==
    /\ timers > 0
    /\ message_label' = NoText
    /\ timers' = timers - 1
    /\ own' = FALSE
    /\ last' = Did("timeout")
    /\ UNCHANGED <<form, csv_file, thanked>>

Next ==
    \/ \E text \in FirstNames \cup {""} : edit_first_name(text)
    \/ \E text \in LastNames \cup {""} : edit_last_name(text)
    \/ \E fill \in DigitFills : edit_digits(fill)
    \/ \E i \in 1..2 : select_candidate(i)
    \/ \E rf \in ReadFaults(csv_file) : \E wf \in WriteFaults :
          process_vote(rf, wf)
    \/ \E rf \in ReadFaults(csv_file) : show_results(rf)
    \/ timeout

Spec == Init /\ [][Next]_vars

\* The program on a store whose every open() goes through: the runs in
\* which no except branch is taken.
NextNoFault ==
    \/ \E text \in FirstNames \cup {""} : edit_first_name(text)
    \/ \E text \in LastNames \cup {""} : edit_last_name(text)
    \/ \E fill \in DigitFills : edit_digits(fill)
    \/ \E i \in 1..2 : select_candidate(i)
    \/ process_vote(FALSE, "none")
    \/ show_results(FALSE)
    \/ timeout

SpecNoFault == Init /\ [][NextNoFault]_vars

---------------------------------------------------------------------------
(* get_candidate_stats on stores the program did not write itself: the     *)
(* file may have been edited by hand between two runs of the program.      *)

\* Data rows in such a store.
MaxTallyRows == 3

\* The records of such a store: a vote for each candidate, a row naming an
\* unknown candidate, one naming a candidate in the wrong case, a short row.
TallyRecords ==
    { <<"Al", "O'Li", "12345", "Jane">>,
      <<"Al", "O'Li", "54321", "John">>,
      <<"Al", "O'Li", "12345", "Joan">>,
      <<"Al", "O'Li", "12345", "jane">>,
      <<"Al", "O'Li">> }

TallyRecordSeqs ==
    UNION {[1..n -> TallyRecords] : n \in 0..MaxTallyRows}

\* The file with the header line save_vote writes and one line per record.
Render(records) ==
    [exists |-> TRUE,
     lines |-> <<writerow(HeaderFields)>>
                  \o [i \in 1..Len(records) |-> writerow(records[i])]]

TallyStores ==
    {Absent, [exists |-> TRUE, lines |-> <<>>]}
       \cup {Render(records) : records \in TallyRecordSeqs}

InitTally ==
    /\ input_first_name = ""
    /\ input_last_name = ""
    /\ digit_inputs = [i \in 1..NumDigitInputs |-> ""]
    /\ first_candidate_button = FALSE
    /\ second_candidate_button = FALSE
    /\ message_label = NoText
    /\ timers = 0
    /\ csv_file \in TallyStores
    /\ thanked = NoStats
    /\ own = FALSE
    /\ last = Did("init")

NextTally == \E rf \in ReadFaults(csv_file) : show_results(rf)

SpecTally == InitTally /\ [][NextTally]_vars

---------------------------------------------------------------------------
(* What the claims speak of.                                               *)

\* The data rows of the store, as the DictReader hands them out.
Rows(file) == IF file.exists THEN DictReader(file.lines) ELSE <<>>

StoredIDs(file) ==
    {Get(Rows(file)[i], "Voting ID") : i \in 1..Len(Rows(file))}

Count(file, candidate) == Tally(Rows(file), "Voted", candidate)

\* The step is a run of process_vote / the state is the one it left.
VoteStep == last'.op = "process_vote"

Voted == last.op = "process_vote"

\* The voting ID the form holds.
FormID == get_voting_id(digit_inputs)

ExactlyOne == first_candidate_button # second_candidate_button

Confirmations ==
    {MsgThankYou(f, c) : f \in FirstNames, c \in CandidateSet}

\* The line save_vote appends for the form as it stands.
FormLine ==
    writerow(<<input_first_name, input_last_name, FormID,
               chosen(first_candidate_button)>>)

HeaderLine == "First Name,Last Name,Voting ID,Voted"

---------------------------------------------------------------------------
(* C1.  No two persisted vote records have the same voting_id, in every    *)
(* state reachable from an absent store.                                   *)
C1_UniqueVotingIDs ==
    \A i, j \in 1..Len(Rows(csv_file)) :
        i # j => Get(Rows(csv_file)[i], "Voting ID")
                   # Get(Rows(csv_file)[j], "Voting ID")

(* C2.  Once a vote with voting_id v is persisted, every later submission  *)
(* that carries v, a first name, a last name and a candidate fails with    *)
(* "This Voting ID has already been used".                                 *)
C2_SecondVoteIsDuplicate ==
    [][(/\ VoteStep
        /\ FormID \in StoredIDs(csv_file)
        /\ input_first_name # "" /\ input_last_name # ""
        /\ ExactlyOne)
       => message_label' = MsgDuplicate]_vars

\* The outcome the ordered checks (1)-(6) of C3 give for the form and store.
C3_Expected ==
    IF input_first_name = "" THEN MsgFirstName
    ELSE IF input_last_name = "" THEN MsgLastName
    ELSE IF FormID = "" THEN MsgVotingID
    ELSE IF Len(FormID) # 5 THEN MsgFiveDigits
    ELSE IF ~(first_candidate_button \/ second_candidate_button)
    THEN MsgCandidate
    ELSE IF FormID \in StoredIDs(csv_file) THEN MsgDuplicate
    ELSE MsgThankYou(input_first_name, chosen(first_candidate_button))

(* C3.  Validation is ordered and short-circuiting: the reported error is  *)
(* that of the first failing check among first name empty, last name       *)
(* empty, voting ID empty, voting ID length not 5, no candidate selected,  *)
(* voting ID already in the store; the vote is accepted only if none of    *)
(* the six fails.                                                          *)
C3_FirstFailingCheckWins ==
    [][VoteStep =>
         /\ message_label' = C3_Expected
         /\ last'.saved <=> (C3_Expected \in Confirmations)]_vars

(* C4, as claimed.  A submission whose voting_id has a length other than 5 *)
(* always fails with "Voting ID must be 5 digits", and the duplicate check *)
(* is not performed for it.                                                *)
C4_AlwaysInvalidFormat ==
    [][(VoteStep /\ Len(FormID) # 5)
       => (message_label' = MsgFiveDigits /\ ~last'.dup_checked)]_vars

(* C4, amended.  A submission whose voting_id has a length other than 5 is *)
(* always rejected before the duplicate check and persists nothing; its    *)
(* error is that of the first failing check: "Voting ID must be 5 digits"  *)
(* when both names and the voting_id are non-empty, and the missing-field  *)
(* error of the first empty one of them otherwise.                         *)
C4_ShortIdRejected ==
    [][(VoteStep /\ Len(FormID) # 5)
       => /\ ~last'.dup_checked
          /\ ~last'.saved
          /\ csv_file' = csv_file
          /\ message_label' =
                IF input_first_name = "" THEN MsgFirstName
                ELSE IF input_last_name = "" THEN MsgLastName
                ELSE IF FormID = "" THEN MsgVotingID
                ELSE MsgFiveDigits]_vars

\* A submission with both names and a voting_id of 1 to 4 characters was
\* rejected with "Voting ID must be 5 digits", without a duplicate check.
C4_Witness ==
    /\ Voted
    /\ input_first_name # "" /\ input_last_name # ""
    /\ Len(FormID) \in 1..4
    /\ message_label = MsgFiveDigits
    /\ ~last.dup_checked

(* C5, as claimed.  A submission in which neither candidate is selected,   *)
(* or both are, fails with "Please select a candidate to vote for" and     *)
(* persists no record; a vote is recorded only when exactly one candidate  *)
(* is selected.                                                            *)
C5_AlwaysMissingSelection ==
    [][VoteStep =>
         /\ ~ExactlyOne => (message_label' = MsgCandidate /\ csv_file' = csv_file)
         /\ csv_file' # csv_file => ExactlyOne]_vars

(* C5, amended.  A submission in which no candidate is selected persists   *)
(* no record; it fails with "Please select a candidate to vote for" when   *)
(* both names are non-empty and the voting_id has 5 characters, and with   *)
(* the error of the earlier failing check otherwise.  A vote is recorded   *)
(* only when exactly one candidate is selected, and for that candidate.    *)
(* The two buttons are never checked at once.                              *)
C5_NoSelectionRejected ==
    [][/\ ~(first_candidate_button' /\ second_candidate_button')
       /\ VoteStep =>
            /\ ~ExactlyOne =>
                 /\ csv_file' = csv_file
                 /\ ~last'.saved
                 /\ (input_first_name # "" /\ input_last_name # ""
                       /\ Len(FormID) = 5) => message_label' = MsgCandidate
            /\ csv_file' # csv_file =>
                 /\ ExactlyOne
                 /\ Len(csv_file'.lines) > 1 =>
                      Get(Rows(csv_file')[Len(Rows(csv_file'))], "Voted")
                        = IF first_candidate_button
                          THEN candidates[1] ELSE candidates[2]]_vars

\* A submission with both names, a 5-character voting_id and no candidate
\* selected was rejected with "Please select a candidate to vote for", with
\* a store at hand that it left alone.
C5_Witness ==
    /\ Voted
    /\ input_first_name # "" /\ input_last_name # ""
    /\ Len(FormID) = 5
    /\ ~first_candidate_button /\ ~second_candidate_button
    /\ message_label = MsgCandidate
    /\ ~last.saved
    /\ Len(Rows(csv_file)) > 0

(* C6.  The store is append-only: each accepted submit leaves the existing *)
(* lines unchanged and in order and adds exactly one record line at the    *)
(* end, the header line first when and only when the store was absent; no  *)
(* operation edits, removes or reorders a line.                            *)
C6_AppendOnly ==
    [][/\ csv_file.exists => csv_file'.exists
       /\ Len(csv_file.lines) <= Len(csv_file'.lines)
       /\ csv_file.lines = SubSeq(csv_file'.lines, 1, Len(csv_file.lines))
       /\ (VoteStep /\ last'.saved) =>
             csv_file'.lines =
                (IF csv_file.exists THEN csv_file.lines ELSE <<HeaderLine>>)
                   \o <<FormLine>>]_vars

(* C7.  tally returns, for every known candidate, exactly the number of    *)
(* data rows of the store whose Voted field is that candidate's name; for  *)
(* an empty or absent store every count is 0.                              *)
C7_TallyCountsRows ==
    last.op = "show_results" =>
        /\ DOMAIN last.stats = CandidateSet
        /\ \A c \in CandidateSet : last.stats[c] = Count(csv_file, c)

(* C7, on any store with the header line.  When reading the store does    *)
(* not raise, tally shows no warning and returns a count for every known   *)
(* candidate: the number of the store's records whose fourth field is that *)
(* candidate's name.  Records naming anything else, and short records, add *)
(* to no count; the counts of an absent or empty store are all 0.          *)
C7_TallyCountsRecords ==
    (last.op = "show_results" /\ ~last.raised) =>
        /\ last.warnings = <<>>
        /\ DOMAIN last.stats = CandidateSet
        /\ csv_file.lines = <<>> =>
              \A c \in CandidateSet : last.stats[c] = 0
        /\ \A records \in TallyRecordSeqs :
              csv_file = Render(records) =>
                 \A c \in CandidateSet :
                    last.stats[c] =
                       Cardinality({i \in 1..Len(records) :
                                       /\ Len(records[i]) >= 4
                                       /\ records[i][4] = c})

\* tally ran on a store holding a vote for Jane and, before it, a record
\* naming an unknown candidate, and returned the count of Jane's votes.
C7_Witness ==
    /\ last.op = "show_results"
    /\ ~last.raised
    /\ last.warnings = <<>>
    /\ Len(csv_file.lines) = 3
    /\ csv_file.lines[2] = "Al,O'Li,12345,Joan"
    /\ csv_file.lines[3] = "Al,O'Li,12345,Jane"
    /\ last.stats["Jane"] = 1
    /\ last.stats["John"] = 0

(* C8.  When a read or write of the store fails during submit (in the      *)
(* duplicate check or in the append), the submit does not report success:  *)
(* no "Thank you ..." confirmation is shown.                               *)
C8_FailureIsNotSuccess ==
    (Voted /\ last.raised) => message_label \notin Confirmations

(* C9.  tally returns for each candidate exactly the number of submissions *)
(* that reported success for that candidate.                               *)
C9_TallyIsThanked ==
    (last.op = "show_results" /\ last.warnings = <<>>) =>
        \A c \in CandidateSet : last.stats[c] = thanked[c]

(* C10.  The timer started by a successful vote clears only that vote's    *)
(* own confirmation: a message displayed by a later operation is never     *)
(* cleared by the earlier vote's timer.                                    *)
C10_TimerClearsOwnMessage ==
    [][(last'.op = "timeout" /\ message_label # NoText) => own]_vars

====
